---- MODULE Spec2Model ----
(***************************************************************************)
(* Model of packages/hdwallet-ledger/src/ledger.ts: the Ledger path        *)
(* classifier (ethDescribeLedgerPath, describePath), the account path      *)
(* enumerators (btcNextAccountPath, ethNextAccountPath) and the wallet's   *)
(* device operations (validateCurrentApp, openApp, getPublicKeys and the   *)
(* guarded coin operations).                                               *)
(*                                                                         *)
(* A path element is a JavaScript number.  It is kept as the pair          *)
(* [hi, lo] standing for hi * 2^31 + lo with 0 <= lo <= 0x7fffffff, so     *)
(* that 0x80000000 + n is [hi |-> 1, lo |-> n] and the result of `+= 1`    *)
(* on 0xffffffff, the number 2^32, is [hi |-> 2, lo |-> 0]: JavaScript     *)
(* additions do not wrap, only the bitwise operators truncate to 32 bits.  *)
(***************************************************************************)
EXTENDS Integers, Sequences, FiniteSets, TLC

VARIABLES
    path,       \* the address path the caller holds (a sequence of elements)
    heap,       \* the JavaScript arrays allocated so far: reference -> contents
    msg,        \* the argument object of the call, arrays held by reference
    before,     \* the heap as it was when the call was entered
    ret,        \* the value the call returned
    pc,         \* "ready" before the call, "done" after it
    deviceApp,  \* name of the application running on the device
    op,         \* the wallet operation in progress
    wpc,        \* where the wallet operation is suspended
    res,        \* the transport response the operation is waiting on
    trace,      \* transport calls and backend invocations of the operation
    outcome     \* how the operation resolved

pathVars == <<path, heap, msg, before, ret, pc>>
walletVars == <<deviceApp, op, wpc, res, trace, outcome>>
vars == <<path, heap, msg, before, ret, pc, deviceApp, op, wpc, res, trace, outcome>>

\* Longest address path the caller supplies.
MaxLen == 5

\* 0x7fffffff, the mask of the 31 low bits.
MaxLo == 2147483647

----------------------------------------------------------------------------
(* Path elements *)

Elem(h, l) == [hi |-> h, lo |-> l]

\* 0x80000000 + n
Hardened(n) == Elem(1, n)

\* the number n itself, n < 0x80000000
Plain(n) == Elem(0, n)

\* (x & 0x80000000) >>> 0 === 0x80000000 : ToInt32 keeps bit 31 only
HasHardenedBit(e) == e.hi % 2 = 1

\* (x & 0x7fffffff) >>> 0
Low31(e) == e.lo

\* x += 1 on a JavaScript number: exact, no wrap at 2^32
PlusOne(e) ==
    IF e.lo = MaxLo THEN Elem(e.hi + 1, 0) ELSE Elem(e.hi, e.lo + 1)

\* the element is a 32-bit unsigned integer
IsUint32(e) == e.hi \in {0, 1}

----------------------------------------------------------------------------
(* Collaborators from @shapeshiftoss/hdwallet-core *)

\* core.slip44ByCoin
slip44ByCoin(coin) ==
    CASE coin = "Ethereum" -> 60
      [] coin = "Bitcoin" -> 0
      [] OTHER -> 0 - 1

\* String.prototype.toLowerCase on the coin names in use
toLowerCase(s) ==
    CASE s = "Ethereum" -> "ethereum"
      [] s = "ETHEREUM" -> "ethereum"
      [] s = "Bitcoin" -> "bitcoin"
      [] OTHER -> s

\* core.addressNListToBIP32: "m" followed by one segment per element, a
\* hardened element printed as its index and a prime
addressNListToBIP32(p) ==
    <<"m">> \o [i \in 1..Len(p) |->
                  IF p[i].hi >= 1 THEN <<Elem(p[i].hi - 1, p[i].lo), "'">>
                  ELSE <<p[i], "">>]

\* the purpose code a UTXO script type is derived under
purposeOf(scriptType) ==
    CASE scriptType = "p2pkh" -> 44
      [] scriptType = "p2sh-p2wpkh" -> 49
      [] scriptType = "p2wpkh" -> 84
      [] OTHER -> 0 - 1

\* core.btcDescribePath: the generic BIP44/49/84 classifier,
\* m / purpose' / coin' / account' [ / change / index ]
btcDescribePath(p, coin, scriptType) ==
    LET unknown == [verbose |-> addressNListToBIP32(p), coin |-> coin,
                    isKnown |-> FALSE]
    IN  IF Len(p) # 3 /\ Len(p) # 5 THEN unknown
        ELSE IF ~(p[1].hi = 1 /\ p[1].lo \in {44, 49, 84}) THEN unknown
        ELSE IF p[1].lo # purposeOf(scriptType) THEN unknown
        ELSE IF slip44ByCoin(coin) < 0 THEN unknown
        ELSE IF p[2] # Hardened(slip44ByCoin(coin)) THEN unknown
        ELSE IF ~HasHardenedBit(p[3]) THEN unknown
        ELSE IF Len(p) = 5 /\ (p[4] \notin {Plain(0), Plain(1)} \/ p[5].hi # 0)
             THEN unknown
        ELSE [verbose |-> <<coin, "Account #", Low31(p[3])>>,
              coin |-> coin,
              isKnown |-> TRUE,
              wholeAccount |-> Len(p) = 3,
              accountIdx |-> Low31(p[3]),
              scriptType |-> scriptType,
              isPrefork |-> FALSE]

\* core.hardenedPath: the elements >= 0x80000000, in order
hardenedPath(p) == SelectSeq(p, LAMBDA e : e.hi >= 1)

\* core.relativePath: the elements < 0x80000000, in order
relativePath(p) == SelectSeq(p, LAMBDA e : e.hi = 0)

----------------------------------------------------------------------------
(* ledger.ts: the Path Classifier *)

\* ethDescribeLedgerPath accepting any hardened account in a 4-element path
ethDescribeLedgerPath_AnyAccount(p) ==
    LET unknown == [verbose |-> addressNListToBIP32(p), coin |-> "Ethereum",
                    isKnown |-> FALSE]
        known(accountIdx) ==
            [verbose |-> <<"Ethereum Account #", accountIdx>>,
             wholeAccount |-> TRUE,
             accountIdx |-> accountIdx,
             coin |-> "Ethereum",
             isKnown |-> TRUE,
             isPrefork |-> FALSE]
    IN  IF Len(p) # 5 /\ Len(p) # 4 THEN unknown
        ELSE IF p[1] # Hardened(44) THEN unknown
        ELSE IF p[2] # Hardened(slip44ByCoin("Ethereum")) THEN unknown
        ELSE IF ~HasHardenedBit(p[3]) THEN unknown
        ELSE IF Len(p) = 5
             THEN IF p[4] # Plain(0) THEN unknown
                  ELSE IF p[5] # Plain(0) THEN unknown
                  ELSE known(Low31(p[3]))
        ELSE IF HasHardenedBit(p[4]) THEN unknown
        ELSE known(p[4].lo)

ethDescribeLedgerPath(p) ==
    LET pathStr == addressNListToBIP32(p)
        unknown == [verbose |-> pathStr, coin |-> "Ethereum", isKnown |-> FALSE]
        known(accountIdx) ==
            [verbose |-> <<"Ethereum Account #", accountIdx>>,
             wholeAccount |-> TRUE,
             accountIdx |-> accountIdx,
             coin |-> "Ethereum",
             isKnown |-> TRUE,
             isPrefork |-> FALSE]
    IN  IF Len(p) # 5 /\ Len(p) # 4 THEN unknown
        ELSE IF p[1] # Hardened(44) THEN unknown
        ELSE IF p[2] # Hardened(slip44ByCoin("Ethereum")) THEN unknown
        ELSE IF ~HasHardenedBit(p[3]) THEN unknown
        ELSE IF Len(p) = 5
             THEN IF p[4] # Plain(0) THEN unknown
                  ELSE IF p[5] # Plain(0) THEN unknown
                  ELSE known(Low31(p[3]))
        ELSE IF Len(p) = 4
             THEN IF p[3] # Hardened(0) THEN unknown
                  ELSE IF HasHardenedBit(p[4]) THEN unknown
                  ELSE known(p[4].lo)
        ELSE unknown

\* core.ethDescribePath: the EVM classifier the enumerator consults
ethDescribePath(p) == ethDescribeLedgerPath(p)

\* core.describePath: the generic classifier for every other coin
coreDescribePath(m, p) == btcDescribePath(p, m.coin, m.scriptType)

\* LedgerHDWalletInfo.describePath; p is the content of msg.path
describePath(m, p) ==
    IF toLowerCase(m.coin) = "ethereum" THEN ethDescribeLedgerPath(p)
    ELSE coreDescribePath(m, p)

----------------------------------------------------------------------------
(* ledger.ts: the Account Path Enumerator.  Arrays live in the heap `h`   *)
(* and objects hold references to them; each operator returns the heap     *)
(* after the call and the returned value.                                  *)

Undefined == [tag |-> "undefined"]

\* btcNextAccountPath without the native-segwit purpose 84'
btcNextAccountPath_No84(h, m) ==
    LET description == btcDescribePath(h[m.addressNList], m.coin, m.scriptType)
        addressNList == m.addressNList
    IN  IF ~description.isKnown THEN [heap |-> h, ret |-> Undefined]
        ELSE IF \/ h[addressNList][1] = Hardened(44)
                \/ h[addressNList][1] = Hardened(49)
             THEN [heap |-> [h EXCEPT ![addressNList][3] = PlusOne(@)],
                   ret |-> [tag |-> "BTCAccountPath",
                            addressNList |-> addressNList,
                            coin |-> m.coin,
                            scriptType |-> m.scriptType]]
        ELSE [heap |-> h, ret |-> Undefined]

btcNextAccountPath(h, m) ==
    LET description == btcDescribePath(h[m.addressNList], m.coin, m.scriptType)
        addressNList == m.addressNList
    IN  IF ~description.isKnown THEN [heap |-> h, ret |-> Undefined]
        ELSE IF \/ h[addressNList][1] = Hardened(44)
                \/ h[addressNList][1] = Hardened(49)
                \/ h[addressNList][1] = Hardened(84)
             THEN [heap |-> [h EXCEPT ![addressNList][3] = PlusOne(@)],
                   ret |-> [tag |-> "BTCAccountPath",
                            addressNList |-> addressNList,
                            coin |-> m.coin,
                            scriptType |-> m.scriptType]]
        ELSE [heap |-> h, ret |-> Undefined]

ethNextAccountPath(h, m) ==
    LET h1 == Append(h, h[m.hardenedPath] \o h[m.relPath])
        addressNList == Len(h1)
        description == ethDescribePath(h1[addressNList])
        \* the three returns that recompute the split of the bumped path
        split(h2, withList) ==
            LET h3 == Append(h2, hardenedPath(h2[addressNList]))
                h4 == Append(h3, relativePath(h2[addressNList]))
            IN  [heap |-> h4,
                 ret |-> IF withList
                         THEN [tag |-> "ETHAccountPath",
                               addressNList |-> addressNList,
                               hardenedPath |-> Len(h3),
                               relPath |-> Len(h4)]
                         ELSE [tag |-> "ETHAccountPath",
                               hardenedPath |-> Len(h3),
                               relPath |-> Len(h4)]]
    IN  IF ~description.isKnown THEN [heap |-> h1, ret |-> Undefined]
        ELSE IF description.wholeAccount
             THEN split([h1 EXCEPT ![addressNList][3] = PlusOne(@)], TRUE)
        ELSE IF Len(h1[addressNList]) = 5
             THEN split([h1 EXCEPT ![addressNList][3] = PlusOne(@)], FALSE)
        ELSE IF Len(h1[addressNList]) = 4
             THEN split([h1 EXCEPT ![addressNList][4] = PlusOne(@)], FALSE)
        ELSE [heap |-> h1, ret |-> Undefined]

----------------------------------------------------------------------------
(* Inputs of the path operations *)

\* Values tried at each position of a path: the codes the classifiers look
\* for at that position, their unhardened and misplaced variants, and the
\* extremes of both halves of the 32-bit range.
PosVals(i) ==
    CASE i = 1 -> {Hardened(44), Hardened(49), Hardened(84), Hardened(60),
                   Hardened(0), Plain(44), Plain(0)}
      [] i = 2 -> {Hardened(60), Hardened(0), Hardened(44), Plain(60), Plain(0)}
      [] i = 3 -> {Hardened(0), Hardened(1), Hardened(MaxLo), Hardened(MaxLo - 1),
                   Plain(0), Plain(MaxLo)}
      [] i = 4 -> {Plain(0), Plain(1), Plain(MaxLo), Hardened(0)}
      [] i = 5 -> {Plain(0), Plain(1), Hardened(0)}
      [] OTHER -> {Plain(0), Hardened(0)}

RECURSIVE PathsOfLen(_)
PathsOfLen(n) ==
    IF n = 0 THEN {<<>>}
    ELSE {Append(p, e) : p \in PathsOfLen(n - 1), e \in PosVals(n)}

Paths == UNION {PathsOfLen(n) : n \in 0..MaxLen}

DescribeCoins == {"Ethereum", "ETHEREUM", "Bitcoin"}
BtcCoins == {"Bitcoin", "Ethereum"}
ScriptTypes == {"p2pkh", "p2sh-p2wpkh", "p2wpkh"}

None == [tag |-> "none"]

\* no wallet operation has been called yet
NoOp == [name |-> "none", msgCoin |-> "", coin |-> "", arg |-> <<>>]

WalletIdle ==
    /\ deviceApp = "BOLOS"
    /\ op = NoOp
    /\ wpc = "idle"
    /\ res = None
    /\ trace = <<>>
    /\ outcome = None

InitPath ==
    /\ path \in Paths
    /\ heap = <<>>
    /\ msg = None
    /\ before = <<>>
    /\ ret = None
    /\ pc = "ready"
    /\ WalletIdle

\* The caller passes { coin, path, scriptType } to describePath.
DescribePath ==
    \E coin \in DescribeCoins, st \in ScriptTypes :
        LET h == <<path>>
            m == [tag |-> "DescribePath", coin |-> coin, path |-> 1,
                  scriptType |-> st]
        IN  /\ pc = "ready"
            /\ msg' = m
            /\ before' = h
            /\ heap' = h
            /\ ret' = describePath(m, h[m.path])
            /\ pc' = "done"
            /\ UNCHANGED <<path, walletVars>>

\* The caller passes { addressNList, coin, scriptType } to btcNextAccountPath.
BtcNextAccountPath ==
    \E coin \in BtcCoins, st \in ScriptTypes :
        LET h == <<path>>
            m == [tag |-> "BTCAccountPath", addressNList |-> 1, coin |-> coin,
                  scriptType |-> st]
            r == btcNextAccountPath(h, m)
        IN  /\ pc = "ready"
            /\ msg' = m
            /\ before' = h
            /\ heap' = r.heap
            /\ ret' = r.ret
            /\ pc' = "done"
            /\ UNCHANGED <<path, walletVars>>

\* The caller passes { hardenedPath, relPath }, the path cut at any point,
\* to ethNextAccountPath.
EthNextAccountPath ==
    \E k \in 0..Len(path) :
        LET h == <<SubSeq(path, 1, k), SubSeq(path, k + 1, Len(path))>>
            m == [tag |-> "ETHAccountPath", hardenedPath |-> 1, relPath |-> 2]
            r == ethNextAccountPath(h, m)
        IN  /\ pc = "ready"
            /\ msg' = m
            /\ before' = h
            /\ heap' = r.heap
            /\ ret' = r.ret
            /\ pc' = "done"
            /\ UNCHANGED <<path, walletVars>>

NextPath ==
    \/ DescribePath
    \/ BtcNextAccountPath
    \/ EthNextAccountPath

SpecPath == InitPath /\ [][NextPath]_vars

----------------------------------------------------------------------------
(* Collaborators of the wallet: ./utils, ./bitcoin, ./ethereum, ./transport *)

\* the value `undefined` where an application name is expected
UndefinedName == "<undefined>"

\* utils.coinToLedgerAppName: the coin -> application name binding table
coinToLedgerAppName(coin) ==
    CASE coin = "Bitcoin" -> "Bitcoin"
      [] coin = "BitcoinCash" -> "Bitcoin Cash"
      [] coin = "Ethereum" -> "Ethereum"
      [] OTHER -> UndefinedName

\* btc.supportedCoins
supportedCoins == {"Bitcoin", "BitcoinCash", "Testnet"}

\* the dashboard, which the device shows when no application is open
Dashboard == "BOLOS"

\* application names a device may report
DeviceApps == {Dashboard, "Bitcoin", "Bitcoin Cash", "Ethereum", "ethereum"}

\* coins a caller may pass; "" stands for a missing coin
Coins == {"", "Bitcoin", "BitcoinCash", "Ethereum", "Testnet", "Monero"}

\* failures the transport may report
TransportErrors == {"0x6d00", "disconnected"}

\* batches of key requests, each request given by its declared coin
Batches == {<<>>, <<"Bitcoin">>, <<"Ethereum">>, <<"Ethereum", "Bitcoin">>}

\* this.transport.call(null, method, ...args)
Call(method, args) == [kind |-> "transport", name |-> method, arg |-> args]

\* a call of a coin backend with the message it is given
Invoke(fn, args) == [kind |-> "backend", name |-> fn, arg |-> args]

Success(payload) == [tag |-> "response", success |-> TRUE, payload |-> payload]
Failure(error) == [tag |-> "response", success |-> FALSE, payload |-> [error |-> error]]

\* what a throw carries
Error(message) == [tag |-> "Error", message |-> message]
WrongApp(vendor, expectedApp) ==
    [tag |-> "WrongApp", vendor |-> vendor, expectedApp |-> expectedApp]
TransportFailure(error) == [tag |-> "TransportFailure", error |-> error]
Resolved(value) == [tag |-> "resolved", value |-> value]

\* utils.handleError: throws the transport's failure, returns on success
handleError(r) ==
    IF r.success THEN None ELSE TransportFailure(r.payload.error)

----------------------------------------------------------------------------
(* ledger.ts: LedgerHDWallet *)

\* validateCurrentApp querying the device before it looks at the coin
validateCurrentAppEnter_CallFirst(coin) ==
    [throw |-> None, calls |-> <<Call("getAppAndVersion", <<>>)>>]

\* validateCurrentApp up to its await: the throw, or the transport call
validateCurrentAppEnter(coin) ==
    IF coin = ""
    THEN [throw |-> Error(<<"No coin provided">>), calls |-> <<>>]
    ELSE LET appName == coinToLedgerAppName(coin)
         IN  IF appName = UndefinedName
             THEN [throw |-> Error(<<"Unable to find associated app name for coin: ", coin>>),
                   calls |-> <<>>]
             ELSE [throw |-> None, calls |-> <<Call("getAppAndVersion", <<>>)>>]

\* validateCurrentApp without the comparison of the application names
validateCurrentAppResume_NoCompare(coin, r) == handleError(r)

\* validateCurrentApp comparing the application names regardless of case
validateCurrentAppResume_AnyCase(coin, r) ==
    LET appName == coinToLedgerAppName(coin)
    IN  IF handleError(r) # None THEN handleError(r)
        ELSE IF toLowerCase(r.payload.name) # toLowerCase(appName)
             THEN WrongApp("Ledger", appName)
        ELSE None

\* validateCurrentApp from the response on: the throw, or None
validateCurrentAppResume(coin, r) ==
    LET appName == coinToLedgerAppName(coin)
    IN  IF handleError(r) # None THEN handleError(r)
        ELSE IF r.payload.name # appName THEN WrongApp("Ledger", appName)
        ELSE None

\* the backend each guarded operation returns the result of
Backend(name) ==
    CASE name = "btcGetAddress" -> "btc.btcGetAddress"
      [] name = "btcSignTx" -> "btc.btcSignTx"
      [] name = "btcSignMessage" -> "btc.btcSignMessage"
      [] name = "ethSignTx" -> "eth.ethSignTx"
      [] name = "ethGetAddress" -> "eth.ethGetAddress"
      [] name = "ethSignMessage" -> "eth.ethSignMessage"
      [] OTHER -> "none"

\* getPublicKeys looking the reported name up among the coin identifiers
getPublicKeysDispatch_ByCoin(r) ==
    IF handleError(r) # None THEN [throw |-> handleError(r), backend |-> "none"]
    ELSE LET name == r.payload.name
         IN  IF name \in supportedCoins
             THEN [throw |-> None, backend |-> "btc.btcGetPublicKeys"]
             ELSE IF name = "Ethereum"
             THEN [throw |-> None, backend |-> "eth.ethGetPublicKeys"]
             ELSE [throw |-> Error(<<"getPublicKeys is not supported with the ", name, " app">>),
                   backend |-> "none"]

\* getPublicKeys from the response on: the throw, or the backend chosen
getPublicKeysDispatch(r) ==
    IF handleError(r) # None THEN [throw |-> handleError(r), backend |-> "none"]
    ELSE LET name == r.payload.name
             btcApps == {coinToLedgerAppName(x) : x \in supportedCoins} \ {UndefinedName}
         IN  IF name \in btcApps
             THEN [throw |-> None, backend |-> "btc.btcGetPublicKeys"]
             ELSE IF name = "Ethereum"
             THEN [throw |-> None, backend |-> "eth.ethGetPublicKeys"]
             ELSE [throw |-> Error(<<"getPublicKeys is not supported with the ", name, " app">>),
                   backend |-> "none"]

\* a public method may be called when no operation is in progress
CanCall == wpc \in {"idle", "done"}

\* The state a method is left in when its first statement is
\* `await this.validateCurrentApp(coin)`, called with a message naming msgCoin
GuardedCall(name, msgCoin, coin) ==
    LET e == validateCurrentAppEnter(coin)
    IN  [op |-> [name |-> name, msgCoin |-> msgCoin, coin |-> coin,
                 arg |-> <<msgCoin>>],
         res |-> None,
         trace |-> e.calls,
         wpc |-> IF e.throw # None THEN "done" ELSE "awaitGuard",
         outcome |-> e.throw]

\* The state a method is left in when its first statement is a transport call
DirectCall(name, method, callArgs, args, await) ==
    [op |-> [name |-> name, msgCoin |-> "", coin |-> "", arg |-> args],
     res |-> None,
     trace |-> <<Call(method, callArgs)>>,
     wpc |-> await,
     outcome |-> None]

\* validateCurrentApp(coin), called on its own
ValidateCurrentApp ==
    \E coin \in Coins :
        LET n == GuardedCall("validateCurrentApp", coin, coin)
        IN  /\ CanCall
            /\ op' = n.op
            /\ res' = n.res
            /\ trace' = n.trace
            /\ wpc' = n.wpc
            /\ outcome' = n.outcome
            /\ UNCHANGED <<deviceApp, pathVars>>

\* btcGetAddress(msg): the guard runs for msg.coin
BtcGetAddress ==
    \E coin \in Coins :
        LET n == GuardedCall("btcGetAddress", coin, coin)
        IN  /\ CanCall
            /\ op' = n.op
            /\ res' = n.res
            /\ trace' = n.trace
            /\ wpc' = n.wpc
            /\ outcome' = n.outcome
            /\ UNCHANGED <<deviceApp, pathVars>>

\* btcSignTx(msg): the guard runs for msg.coin
BtcSignTx ==
    \E coin \in Coins :
        LET n == GuardedCall("btcSignTx", coin, coin)
        IN  /\ CanCall
            /\ op' = n.op
            /\ res' = n.res
            /\ trace' = n.trace
            /\ wpc' = n.wpc
            /\ outcome' = n.outcome
            /\ UNCHANGED <<deviceApp, pathVars>>

\* btcSignMessage(msg): the guard runs for msg.coin
BtcSignMessage ==
    \E coin \in Coins :
        LET n == GuardedCall("btcSignMessage", coin, coin)
        IN  /\ CanCall
            /\ op' = n.op
            /\ res' = n.res
            /\ trace' = n.trace
            /\ wpc' = n.wpc
            /\ outcome' = n.outcome
            /\ UNCHANGED <<deviceApp, pathVars>>

\* ethSignTx(msg): the guard runs for "Ethereum"
EthSignTx ==
    LET n == GuardedCall("ethSignTx", "", "Ethereum")
    IN  /\ CanCall
        /\ op' = n.op
        /\ res' = n.res
        /\ trace' = n.trace
        /\ wpc' = n.wpc
        /\ outcome' = n.outcome
        /\ UNCHANGED <<deviceApp, pathVars>>

\* ethGetAddress(msg): the guard runs for "Ethereum"
EthGetAddress ==
    LET n == GuardedCall("ethGetAddress", "", "Ethereum")
    IN  /\ CanCall
        /\ op' = n.op
        /\ res' = n.res
        /\ trace' = n.trace
        /\ wpc' = n.wpc
        /\ outcome' = n.outcome
        /\ UNCHANGED <<deviceApp, pathVars>>

\* ethSignMessage(msg): the guard runs for "Ethereum"
EthSignMessage ==
    LET n == GuardedCall("ethSignMessage", "", "Ethereum")
    IN  /\ CanCall
        /\ op' = n.op
        /\ res' = n.res
        /\ trace' = n.trace
        /\ wpc' = n.wpc
        /\ outcome' = n.outcome
        /\ UNCHANGED <<deviceApp, pathVars>>

\* openApp running the guard for the application before its own command
OpenApp_Guarded ==
    \E coin \in {"Bitcoin", "BitcoinCash", "Ethereum"} :
        LET n == GuardedCall("openApp", coin, coin)
        IN  /\ CanCall
            /\ op' = n.op
            /\ res' = n.res
            /\ trace' = n.trace
            /\ wpc' = n.wpc
            /\ outcome' = n.outcome
            /\ UNCHANGED <<deviceApp, pathVars>>

\* openApp(appName)
OpenApp ==
    \E appName \in DeviceApps \ {Dashboard} :
        LET n == DirectCall("openApp", "openApp", <<appName>>, <<appName>>, "awaitOpen")
        IN  /\ CanCall
            /\ op' = n.op
            /\ res' = n.res
            /\ trace' = n.trace
            /\ wpc' = n.wpc
            /\ outcome' = n.outcome
            /\ UNCHANGED <<deviceApp, pathVars>>

\* getFeatures()
GetFeatures ==
    LET n == DirectCall("getFeatures", "getDeviceInfo", <<>>, <<>>, "awaitInfo")
    IN  /\ CanCall
        /\ op' = n.op
        /\ res' = n.res
        /\ trace' = n.trace
        /\ wpc' = n.wpc
        /\ outcome' = n.outcome
        /\ UNCHANGED <<deviceApp, pathVars>>

\* getPublicKeys(msg), msg a batch of requests
GetPublicKeys ==
    \E batch \in Batches :
        LET n == DirectCall("getPublicKeys", "getAppAndVersion", <<>>, batch, "awaitApp")
        IN  /\ CanCall
            /\ op' = n.op
            /\ res' = n.res
            /\ trace' = n.trace
            /\ wpc' = n.wpc
            /\ outcome' = n.outcome
            /\ UNCHANGED <<deviceApp, pathVars>>

Awaiting == wpc \in {"awaitGuard", "awaitOpen", "awaitInfo", "awaitApp"} /\ res = None

\* The transport answers the call in flight.  getAppAndVersion reports the
\* running application; openApp starts the application from the dashboard.
TransportSucceeds ==
    /\ Awaiting
    /\ LET call == trace[Len(trace)]
       IN  CASE call.name = "getAppAndVersion" ->
                  /\ res' = Success([name |-> deviceApp])
                  /\ UNCHANGED deviceApp
             [] call.name = "openApp" ->
                  /\ deviceApp = Dashboard
                  /\ res' = Success([name |-> call.arg[1]])
                  /\ deviceApp' = call.arg[1]
             [] OTHER ->
                  /\ res' = Success([name |-> "deviceInfo"])
                  /\ UNCHANGED deviceApp
    /\ UNCHANGED <<op, wpc, trace, outcome, pathVars>>

TransportFails ==
    /\ Awaiting
    /\ \E e \in TransportErrors : res' = Failure(e)
    /\ UNCHANGED <<deviceApp, op, wpc, trace, outcome, pathVars>>

\* The guard resumes; a guarded operation then calls its backend.
ValidateResume ==
    /\ wpc = "awaitGuard"
    /\ res # None
    /\ LET thrown == validateCurrentAppResume(op.coin, res)
       IN  IF thrown # None
           THEN wpc' = "done" /\ outcome' = thrown /\ UNCHANGED trace
           ELSE IF op.name = "validateCurrentApp"
           THEN wpc' = "done" /\ outcome' = Resolved("") /\ UNCHANGED trace
           ELSE /\ wpc' = "awaitBackend"
                /\ trace' = Append(trace, Invoke(Backend(op.name), op.arg))
                /\ UNCHANGED outcome
    /\ UNCHANGED <<deviceApp, op, res, pathVars>>

GetPublicKeysResume ==
    /\ wpc = "awaitApp"
    /\ res # None
    /\ LET d == getPublicKeysDispatch(res)
       IN  IF d.throw # None
           THEN wpc' = "done" /\ outcome' = d.throw /\ UNCHANGED trace
           ELSE /\ wpc' = "awaitBackend"
                /\ trace' = Append(trace, Invoke(d.backend, op.arg))
                /\ UNCHANGED outcome
    /\ UNCHANGED <<deviceApp, op, res, pathVars>>

OpenAppResume ==
    /\ wpc = "awaitOpen"
    /\ res # None
    /\ wpc' = "done"
    /\ outcome' = IF handleError(res) # None THEN handleError(res) ELSE Resolved("")
    /\ UNCHANGED <<deviceApp, op, res, trace, pathVars>>

GetFeaturesResume ==
    /\ wpc = "awaitInfo"
    /\ res # None
    /\ wpc' = "done"
    /\ outcome' = IF handleError(res) # None THEN handleError(res)
                  ELSE Resolved(res.payload.name)
    /\ UNCHANGED <<deviceApp, op, res, trace, pathVars>>

\* The backend, a black box, resolves or rejects.
BackendReturns ==
    /\ wpc = "awaitBackend"
    /\ wpc' = "done"
    /\ \E r \in {Resolved(trace[Len(trace)].name), Error(<<"backend">>)} : outcome' = r
    /\ UNCHANGED <<deviceApp, op, res, trace, pathVars>>

\* The user opens another application, or returns to the dashboard.
UserSwitchesApp ==
    /\ \E a \in DeviceApps \ {deviceApp} : deviceApp' = a
    /\ UNCHANGED <<op, wpc, res, trace, outcome, pathVars>>

PathIdle ==
    /\ path = <<>>
    /\ heap = <<>>
    /\ msg = None
    /\ before = <<>>
    /\ ret = None
    /\ pc = "ready"

Init ==
    /\ PathIdle
    /\ deviceApp \in DeviceApps
    /\ op = NoOp
    /\ wpc = "idle"
    /\ res = None
    /\ trace = <<>>
    /\ outcome = None

Next ==
    \/ ValidateCurrentApp
    \/ BtcGetAddress
    \/ BtcSignTx
    \/ BtcSignMessage
    \/ EthSignTx
    \/ EthGetAddress
    \/ EthSignMessage
    \/ OpenApp
    \/ GetFeatures
    \/ GetPublicKeys
    \/ TransportSucceeds
    \/ TransportFails
    \/ ValidateResume
    \/ GetPublicKeysResume
    \/ OpenAppResume
    \/ GetFeaturesResume
    \/ BackendReturns
    \/ UserSwitchesApp

Spec == Init /\ [][Next]_vars

----------------------------------------------------------------------------
(* Properties of the path operations, checked under SpecPath *)

DoneCall(tag) == pc = "done" /\ msg.tag = tag

\* b is the number a + 1, stated on the two halves of the number
IsSucc(a, b) ==
    \/ a.lo < MaxLo /\ b.hi = a.hi /\ b.lo = a.lo + 1
    \/ a.lo = MaxLo /\ b.hi = a.hi + 1 /\ b.lo = 0

\* the structural rule of the EVM scheme, on a path of 32-bit elements
EvmAccountShape(p) ==
    /\ Len(p) \in {4, 5}
    /\ p[1] = Hardened(44)
    /\ p[2] = Hardened(60)
    /\ p[3].hi = 1
    /\ \/ Len(p) = 5 /\ p[4] = Plain(0) /\ p[5] = Plain(0)
       \/ Len(p) = 4 /\ p[3] = Hardened(0) /\ p[4].hi = 0

\* C4: describePath with coin "Ethereum" reports isKnown exactly for the
\* paths [44', 60', i', 0, 0] and [44', 60', 0', i]; a known result has
\* wholeAccount = true, isPrefork = false, coin "Ethereum" and accountIdx the
\* unhardened element 2 (length 5) or element 3 (length 4); every other path
\* is reported unknown with coin "Ethereum".
C4_EvmClassifier ==
    (DoneCall("DescribePath") /\ msg.coin = "Ethereum") =>
        LET p == before[msg.path] IN
        /\ ret.coin = "Ethereum"
        /\ ret.isKnown = EvmAccountShape(p)
        /\ ret.isKnown =>
            /\ ret.wholeAccount = TRUE
            /\ ret.isPrefork = FALSE
            /\ Len(p) = 5 => ret.accountIdx = p[3].lo /\ 0 <= ret.accountIdx
            /\ Len(p) = 4 => ret.accountIdx = p[4].lo

C4_Witness ==
    /\ DoneCall("DescribePath")
    /\ msg.coin = "Ethereum"
    /\ Len(before[msg.path]) = 5
    /\ ret.isKnown
    /\ ret.accountIdx = MaxLo

\* C5: for an EVM account path the classifier knows with account index i,
\* ethNextAccountPath returns a path that the classifier knows with account
\* index i + 1 and whose hardenedPath / relPath are the hardened prefix and
\* the unhardened suffix of the new combined path.  (An account index is at
\* most 0x7fffffff, so no result can carry i + 1 when i = 0x7fffffff.)
C5_NextIsNextAccount ==
    DoneCall("ETHAccountPath") =>
        LET d == ethDescribeLedgerPath(before[msg.hardenedPath] \o before[msg.relPath])
        IN  d.isKnown =>
            /\ ret.tag = "ETHAccountPath"
            /\ LET hp == heap[ret.hardenedPath]
                   rp == heap[ret.relPath]
                   d2 == ethDescribeLedgerPath(hp \o rp)
               IN  /\ d2.isKnown
                   /\ d.accountIdx # MaxLo
                   /\ d2.accountIdx = d.accountIdx + 1
                   /\ \A i \in 1..Len(hp) : hp[i].hi = 1
                   /\ \A i \in 1..Len(rp) : rp[i].hi = 0

\* C6: for a UTXO path classified as known whose first element is 44', 49'
\* or 84', btcNextAccountPath returns the input's coin and scriptType and an
\* addressNList equal to the original one except that element 2 is the
\* original element 2 plus exactly 1; in every other case it returns
\* undefined.
C6_BtcNext ==
    DoneCall("BTCAccountPath") =>
        LET p == before[msg.addressNList]
            known == btcDescribePath(p, msg.coin, msg.scriptType).isKnown
        IN  IF known /\ p[1] \in {Hardened(44), Hardened(49), Hardened(84)}
            THEN /\ ret.tag = "BTCAccountPath"
                 /\ ret.coin = msg.coin
                 /\ ret.scriptType = msg.scriptType
                 /\ LET q == heap[ret.addressNList]
                    IN  /\ Len(q) = Len(p)
                        /\ \A i \in 1..Len(p) : i # 3 => q[i] = p[i]
                        /\ IsSucc(p[3], q[3])
            ELSE ret = Undefined

C6_Witness ==
    /\ DoneCall("BTCAccountPath")
    /\ ret.tag = "BTCAccountPath"
    /\ before[msg.addressNList][1] = Hardened(84)
    /\ heap[ret.addressNList][3] = Hardened(1)

\* the arrays a returned account path refers to
RetArrays ==
    IF ret.tag = "BTCAccountPath" THEN {ret.addressNList}
    ELSE IF ret.tag = "ETHAccountPath" THEN {ret.hardenedPath, ret.relPath}
    ELSE {}

\* C7: after btcNextAccountPath or ethNextAccountPath, whatever it returned,
\* every array of the caller's input holds the elements it held before the
\* call, and the returned path shares no array with the input.
C7_InputNotMutated ==
    (DoneCall("BTCAccountPath") \/ DoneCall("ETHAccountPath")) =>
        /\ \A r \in 1..Len(before) : heap[r] = before[r]
        /\ RetArrays \cap (1..Len(before)) = {}

\* C9: every element of a path returned by btcNextAccountPath or
\* ethNextAccountPath is a 32-bit unsigned integer, and the incremented
\* account index (element 2 of the path) is still hardened.
C9_ResultIsUint32 ==
    /\ (DoneCall("BTCAccountPath") /\ ret.tag = "BTCAccountPath") =>
          LET q == heap[ret.addressNList]
          IN  /\ \A i \in 1..Len(q) : IsUint32(q[i])
              /\ q[3].hi = 1
    /\ (DoneCall("ETHAccountPath") /\ ret.tag = "ETHAccountPath") =>
          LET q == heap[ret.hardenedPath] \o heap[ret.relPath]
          IN  /\ \A i \in 1..Len(q) : IsUint32(q[i])
              /\ q[3].hi = 1

----------------------------------------------------------------------------
(* Properties of the wallet operations, checked under Spec *)

BtcOps == {"btcGetAddress", "btcSignTx", "btcSignMessage"}
EthOps == {"ethSignTx", "ethGetAddress", "ethSignMessage"}
GuardedOps == BtcOps \cup EthOps

\* the coin an operation is about: the message's coin, "Ethereum" for the
\* EVM operations
CoinOf(o) == IF o.name \in EthOps THEN "Ethereum" ELSE o.msgCoin

TransportCalls == SelectSeq(trace, LAMBDA e : e.kind = "transport")
BackendCalls == SelectSeq(trace, LAMBDA e : e.kind = "backend")

Answered == res.tag = "response"

\* the device answered getAppAndVersion with the coin's bound application
GuardPasses(coin) ==
    /\ coin # ""
    /\ coinToLedgerAppName(coin) # UndefinedName
    /\ Answered
    /\ res.success
    /\ res.payload.name = coinToLedgerAppName(coin)

\* the failure of the guard for the coin, given the response received
GuardFailure(coin) ==
    IF coin = "" THEN Error(<<"No coin provided">>)
    ELSE IF coinToLedgerAppName(coin) = UndefinedName
    THEN Error(<<"Unable to find associated app name for coin: ", coin>>)
    ELSE IF ~res.success THEN TransportFailure(res.payload.error)
    ELSE WrongApp("Ledger", coinToLedgerAppName(coin))

\* C1: in each of the six coin operations the backend is invoked only after
\* validateCurrentApp for the operation's coin has succeeded in the same
\* operation; when the guard fails (missing coin, unmapped coin, transport
\* failure, wrong application) no backend is invoked and the operation
\* resolves to that failure.
C1_GuardBeforeBackend ==
    op.name \in GuardedOps =>
        /\ \A j \in 1..Len(trace) :
              trace[j].kind = "backend" =>
                  /\ j = 2
                  /\ trace[1] = Call("getAppAndVersion", <<>>)
                  /\ GuardPasses(CoinOf(op))
                  /\ trace[j].name = Backend(op.name)
        /\ (wpc = "done" /\ ~GuardPasses(CoinOf(op))) =>
              /\ BackendCalls = <<>>
              /\ outcome = GuardFailure(CoinOf(op))

C1_Witness ==
    /\ op.name = "ethSignTx"
    /\ wpc = "awaitBackend"
    /\ trace = <<Call("getAppAndVersion", <<>>), Invoke("eth.ethSignTx", <<"">>)>>

\* C2: for a coin with an application binding and a successful
\* getAppAndVersion response, validateCurrentApp fails with
\* WrongApp("Ledger", bound name) if and only if the reported name differs
\* from the bound name (exact comparison); with equal names it completes
\* without error.
C2_WrongAppIff ==
    LET coin == IF op.name = "validateCurrentApp" THEN op.msgCoin ELSE CoinOf(op)
        appName == coinToLedgerAppName(coin)
    IN  ( /\ op.name \in GuardedOps \cup {"validateCurrentApp"}
          /\ wpc \in {"awaitBackend", "done"}
          /\ coin # ""
          /\ appName # UndefinedName
          /\ Answered
          /\ res.success ) =>
            /\ (outcome.tag = "WrongApp") <=> (res.payload.name # appName)
            /\ outcome.tag = "WrongApp" => outcome = WrongApp("Ledger", appName)
            /\ res.payload.name = appName =>
                  IF op.name = "validateCurrentApp"
                  THEN outcome = Resolved("")
                  ELSE Len(BackendCalls) = 1

C2_Witness ==
    /\ op.name = "validateCurrentApp"
    /\ wpc = "done"
    /\ Answered
    /\ res.success
    /\ res.payload.name = "ethereum"
    /\ outcome = WrongApp("Ledger", "Ethereum")

\* the reported name is the bound application of a supported UTXO coin
IsUtxoApp(name) ==
    \E c \in supportedCoins :
        coinToLedgerAppName(c) # UndefinedName /\ coinToLedgerAppName(c) = name

\* C3: getPublicKeys issues exactly one getAppAndVersion call; given the
\* reported application name it hands the whole batch to the UTXO backend
\* iff the name is bound to a supported UTXO coin, to the EVM backend iff
\* the name is no such name and equals "Ethereum", and otherwise fails with
\* the error naming the application, no backend invoked.  The coins the
\* requests declare play no part.
C3_Dispatch ==
    op.name = "getPublicKeys" =>
        /\ TransportCalls = <<Call("getAppAndVersion", <<>>)>>
        /\ (wpc \in {"awaitBackend", "done"} /\ res.success) =>
              LET name == res.payload.name
              IN  /\ (BackendCalls = <<Invoke("btc.btcGetPublicKeys", op.arg)>>)
                        <=> IsUtxoApp(name)
                  /\ (BackendCalls = <<Invoke("eth.ethGetPublicKeys", op.arg)>>)
                        <=> (~IsUtxoApp(name) /\ name = "Ethereum")
                  /\ (~IsUtxoApp(name) /\ name # "Ethereum") =>
                        /\ BackendCalls = <<>>
                        /\ outcome = Error(<<"getPublicKeys is not supported with the ",
                                             name, " app">>)
        /\ (wpc \in {"awaitBackend", "done"} /\ ~res.success) =>
              /\ BackendCalls = <<>>
              /\ outcome = TransportFailure(res.payload.error)

C3_Witness ==
    /\ op.name = "getPublicKeys"
    /\ op.arg = <<"Ethereum", "Bitcoin">>
    /\ res = Success([name |-> "Bitcoin Cash"])
    /\ trace = <<Call("getAppAndVersion", <<>>),
                 Invoke("btc.btcGetPublicKeys", <<"Ethereum", "Bitcoin">>)>>

\* C8 as stated: a getAppAndVersion query is issued before openApp sends its
\* own transport command.
C8_OpenAppGuarded ==
    \A j \in 1..Len(trace) :
        (trace[j].kind = "transport" /\ trace[j].name = "openApp") =>
            \E i \in 1..(j - 1) : trace[i] = Call("getAppAndVersion", <<>>)

\* C8 as amended: openApp sends exactly one transport command, openApp with
\* the application name, with no getAppAndVersion query before it, and
\* resolves to the transport's answer.
C8_OpenAppDirect ==
    op.name = "openApp" =>
        /\ trace = <<Call("openApp", op.arg)>>
        /\ wpc = "done" =>
              outcome = IF res.success THEN Resolved("")
                        ELSE TransportFailure(res.payload.error)

C8_Witness ==
    /\ op.name = "openApp"
    /\ wpc = "done"
    /\ outcome = Resolved("")
    /\ deviceApp = op.arg[1]

\* C10: validateCurrentApp issues no transport call when the coin is missing
\* or has no application binding, failing first; otherwise it issues exactly
\* one, getAppAndVersion, and a failure of that call is the failure of
\* validateCurrentApp, WrongApp not being raised.
C10_GuardTransportCalls ==
    LET coin == IF op.name = "validateCurrentApp" THEN op.msgCoin ELSE CoinOf(op)
    IN  op.name \in GuardedOps \cup {"validateCurrentApp"} =>
            IF coin = "" \/ coinToLedgerAppName(coin) = UndefinedName
            THEN /\ trace = <<>>
                 /\ res = None
                 /\ wpc = "done"
                 /\ outcome = GuardFailure(coin)
            ELSE /\ TransportCalls = <<Call("getAppAndVersion", <<>>)>>
                 /\ (wpc = "done" /\ ~res.success) =>
                       /\ outcome = TransportFailure(res.payload.error)
                       /\ outcome.tag # "WrongApp"

C10_Witness ==
    /\ op.name = "validateCurrentApp"
    /\ op.msgCoin = "Bitcoin"
    /\ wpc = "done"
    /\ outcome = TransportFailure("disconnected")

====
